---- MODULE Spec2Model ----
(***************************************************************************)
(* Property form state machine of spot2_assistant.                         *)
(*                                                                         *)
(*   app/models/property_form.py   PropertyField, PropertyFormModel        *)
(*   app/utils/state_management.py the session-state adapter               *)
(*   app/agents/tools/tools.py     extract_field                           *)
(*                                                                         *)
(* Python strings are sequences of one-character strings, so that          *)
(* str.lower, str.replace and re.match are computed character by           *)
(* character.  An Optional[T] is <<>> for None and <<x>> for the value x.  *)
(* A dict is a function; dict equality in Python ignores insertion order.  *)
(***************************************************************************)
EXTENDS Integers, Sequences, FiniteSets, TLC

VARIABLES
    form,      \* the PropertyFormModel object the caller holds (last built or loaded)
    state,     \* the ADK session state dictionary
    call,      \* the operation last invoked, with its arguments
    ret,       \* what that operation returned
    applied,   \* history: per required field, the value last passed to update_field
    checks,    \* history: how many times check_form_status was invoked
    cycles,    \* per writer, its position in update_field_in_form and its local form
    active_requests,  \* Spot2Assistant.active_requests
    closed,    \* the LiveRequestQueue objects that were closed
    runs       \* per run_streaming invocation, its position

formVars == <<form, state, call, ret, applied>>

toolVars == <<checks, cycles>>

streamVars == <<active_requests, closed, runs>>

vars == <<form, state, call, ret, applied, checks, cycles, active_requests, closed, runs>>

----------------------------------------------------------------------------
(* Optional values                                                          *)

None == <<>>

Some(x) == <<x>>

Get(opt) == opt[1]

----------------------------------------------------------------------------
(* Strings                                                                  *)

UpperCase ==
    <<"A","B","C","D","E","F","G","H","I","J","K","L","M",
      "N","O","P","Q","R","S","T","U","V","W","X","Y","Z">>

LowerCase ==
    <<"a","b","c","d","e","f","g","h","i","j","k","l","m",
      "n","o","p","q","r","s","t","u","v","w","x","y","z">>

Digits == {"0","1","2","3","4","5","6","7","8","9"}

\* str.lower(), one character
LowerChar(c) ==
    IF \E i \in 1..Len(UpperCase) : UpperCase[i] = c
    THEN LowerCase[CHOOSE i \in 1..Len(UpperCase) : UpperCase[i] = c]
    ELSE c

\* str.lower()
Lower(s) == [i \in 1..Len(s) |-> LowerChar(s[i])]

\* str.replace(old, new) for one-character old and new
Replace(s, old, new) == [i \in 1..Len(s) |-> IF s[i] = old THEN new ELSE s[i]]

\* field names
budget == <<"b","u","d","g","e","t">>

total_size == <<"t","o","t","a","l","_","s","i","z","e">>

real_estate_type ==
    <<"r","e","a","l","_","e","s","t","a","t","e","_","t","y","p","e">>

city == <<"c","i","t","y">>

parking == <<"p","a","r","k","i","n","g">>

pet_friendly == <<"p","e","t","_","f","r","i","e","n","d","l","y">>

Budget == <<"B","u","d","g","e","t">>

Total_Size == <<"T","o","t","a","l"," ","S","i","z","e">>

Pet_Friendly == <<"P","e","t"," ","F","r","i","e","n","d","l","y">>

\* values
EmptyStr == <<>>

Office == <<"o","f","f","i","c","e">>

USD20000 == <<"2","0","0","0","0"," ","U","S","D">>

----------------------------------------------------------------------------
(* Regular expressions: re.compile and Pattern.match                        *)

\* re.compile: a pattern is a sequence of items, each a character class that
\* is matched once or, with "+", one or more times.
Compile(p) ==
    CASE p = ".+"     -> << [cls |-> "any",   plus |-> TRUE] >>
      [] p = "[0-9]+" -> << [cls |-> "digit", plus |-> TRUE] >>
      [] p = "[a-z]+" -> << [cls |-> "lower", plus |-> TRUE] >>

InClass(cls, c) ==
    CASE cls = "any"   -> c # "\n"
      [] cls = "digit" -> c \in Digits
      [] cls = "lower" -> \E i \in 1..Len(LowerCase) : LowerCase[i] = c

\* Pattern.match: the pattern matches a prefix of s (anchored at the start only)
RECURSIVE Match(_, _)
Match(pat, s) ==
    IF pat = <<>> THEN TRUE
    ELSE LET item == Head(pat) IN
         IF item.plus
         THEN \E k \in 1..Len(s) :
                  /\ \A i \in 1..k : InClass(item.cls, s[i])
                  /\ Match(Tail(pat), SubSeq(s, k + 1, Len(s)))
         ELSE /\ s # <<>>
              /\ InClass(item.cls, Head(s))
              /\ Match(Tail(pat), Tail(s))

----------------------------------------------------------------------------
(* PropertyField                                                            *)

NOT_PROVIDED == "NOT_PROVIDED"

INVALID == "INVALID"

VALID == "VALID"

\* FieldStatus: the value of each enumeration member
StatusValue(member) ==
    CASE member = NOT_PROVIDED -> "not_provided"
      [] member = INVALID      -> "invalid"
      [] member = VALID        -> "valid"

\* FieldStatus(value): the member with that value
StatusMember(value) ==
    CASE value = "not_provided" -> NOT_PROVIDED
      [] value = "invalid"      -> INVALID
      [] value = "valid"        -> VALID

\* PropertyField(...): status and value take their defaults unless given
PropertyField(description, examples, pattern) ==
    [status             |-> NOT_PROVIDED,
     value              |-> None,
     description        |-> description,
     examples           |-> examples,
     validation_pattern |-> pattern]

PatternMismatch == "The value does not match the expected pattern for this field."

\* Python truthiness of an Optional[str]: None and "" are false
Truthy(opt) == opt # None /\ Get(opt) # ""

\* faulty variant: an empty value is rejected whether or not there is a
\* pattern
validate_value_rejects_empty(field, value) ==
    IF value = EmptyStr
    THEN <<FALSE, Some(PatternMismatch)>>
    ELSE IF Truthy(field.validation_pattern)
    THEN IF ~Match(Compile(Get(field.validation_pattern)), value)
         THEN <<FALSE, Some(PatternMismatch)>>
         ELSE <<TRUE, None>>
    ELSE <<TRUE, None>>

\* PropertyField.validate_value
validate_value(field, value) ==
    IF Truthy(field.validation_pattern) /\ value # EmptyStr
    THEN IF ~Match(Compile(Get(field.validation_pattern)), value)
         THEN <<FALSE, Some(PatternMismatch)>>
         ELSE <<TRUE, None>>
    ELSE <<TRUE, None>>

----------------------------------------------------------------------------
(* PropertyFormModel                                                        *)

RequiredNames == <<budget, total_size, real_estate_type, city>>

IsRequired(name) == \E i \in 1..Len(RequiredNames) : RequiredNames[i] = name

\* getattr(self, field_name) for the four required attributes
GetAttr(f, name) ==
    CASE name = budget           -> f.budget
      [] name = total_size       -> f.total_size
      [] name = real_estate_type -> f.real_estate_type
      [] name = city             -> f.city

\* assignments made through the object getattr returned
SetAttr(f, name, field) ==
    CASE name = budget           -> [f EXCEPT !.budget = field]
      [] name = total_size       -> [f EXCEPT !.total_size = field]
      [] name = real_estate_type -> [f EXCEPT !.real_estate_type = field]
      [] name = city             -> [f EXCEPT !.city = field]

\* The validation patterns the four required fields carry.  The shipped
\* defaults carry none; a deployment that validates input sets them.
ShippedPatterns ==
    [budget |-> None, total_size |-> None, real_estate_type |-> None, city |-> None]

StrictPatterns ==
    [budget           |-> Some("[0-9]+"),
     total_size       |-> Some("[0-9]+"),
     real_estate_type |-> Some("[a-z]+"),
     city             |-> Some(".+")]

PatternConfigs == {ShippedPatterns, StrictPatterns}

\* PropertyFormModel(...): the default factories of the four required
\* fields, an empty additional_fields and form_complete False
PropertyFormModel(patterns) ==
    [budget |-> PropertyField(
         <<"Budget for the property (e.g., 20,000 USD)", <<>>>>,
         <<"I have a budget of 20,000 USD", "My budget is 50,000 dollars">>,
         patterns.budget),
     total_size |-> PropertyField(
         <<"Total size requirement (e.g., 500m2)", <<>>>>,
         <<"I need 500m2", "I'm looking for 300 square meters">>,
         patterns.total_size),
     real_estate_type |-> PropertyField(
         <<"Type of real estate (e.g., office, retail, warehouse)", <<>>>>,
         <<"I am looking for an office space", "I need a retail location">>,
         patterns.real_estate_type),
     city |-> PropertyField(
         <<"City location (e.g., Mexico City)", <<>>>>,
         <<"I want a property in Mexico City", "Looking in Barcelona">>,
         patterns.city),
     additional_fields |-> <<>>,
     form_complete     |-> FALSE]

\* PropertyFormModel.is_complete
is_complete(f) ==
    LET required_fields == <<f.budget, f.total_size, f.real_estate_type, f.city>>
    IN  \A i \in 1..Len(required_fields) : required_fields[i].status = VALID

\* faulty variant: the cached flag is not recomputed
update_completion_status_skipped(f) == f

\* PropertyFormModel.update_completion_status
update_completion_status(f) == [f EXCEPT !.form_complete = is_complete(f)]

\* faulty variant: only fields never provided count as missing
get_missing_fields_not_provided(f) ==
    LET NotProvided(name) == GetAttr(f, name).status = NOT_PROVIDED
    IN  SelectSeq(RequiredNames, NotProvided)

\* PropertyFormModel.get_missing_fields: fields_map is walked in insertion order
get_missing_fields(f) ==
    LET NotValid(name) == GetAttr(f, name).status # VALID
    IN  SelectSeq(RequiredNames, NotValid)

\* faulty variant: an empty value clears the field
UpdateRequired_empty_clears(f, field_name, value) ==
    LET field   == GetAttr(f, field_name)
        result  == validate_value(field, value)
        updated ==
            IF value = EmptyStr
            THEN [field EXCEPT !.value = None, !.status = NOT_PROVIDED]
            ELSE [field EXCEPT !.value  = Some(value),
                               !.status = IF result[1] THEN VALID ELSE INVALID]
    IN  [form |-> update_completion_status(SetAttr(f, field_name, updated)),
         ret  |-> result]

\* faulty variant: a failed validation does not mark the field INVALID
UpdateRequired_never_invalid(f, field_name, value) ==
    LET field   == GetAttr(f, field_name)
        result  == validate_value(field, value)
        updated == [field EXCEPT !.value = Some(value), !.status = VALID]
    IN  [form |-> update_completion_status(SetAttr(f, field_name, updated)),
         ret  |-> result]

\* update_field, required branch: validate, store value and status, recompute
UpdateRequired(f, field_name, value) ==
    LET field   == GetAttr(f, field_name)
        result  == validate_value(field, value)
        updated == [field EXCEPT !.value  = Some(value),
                                 !.status = IF result[1] THEN VALID ELSE INVALID]
    IN  [form |-> update_completion_status(SetAttr(f, field_name, updated)),
         ret  |-> result]

\* faulty variant: an existing entry is replaced by a newly built one
UpdateAdditional_recreate(f, field_name, value) ==
    LET old == f.additional_fields
        entry == [status             |-> VALID,
                  value              |-> Some(value),
                  description        |-> <<"Additional field: ", field_name>>,
                  examples           |-> <<value>>,
                  validation_pattern |-> None]
    IN  [form |-> [f EXCEPT !.additional_fields =
                       [k \in DOMAIN old \cup {field_name} |->
                            IF k = field_name THEN entry ELSE old[k]]],
         ret  |-> <<TRUE, None>>]

\* faulty variant: an existing entry keeps its old value
UpdateAdditional_keep_existing(f, field_name, value) ==
    LET old == f.additional_fields
        entry == [status             |-> VALID,
                  value              |-> Some(value),
                  description        |-> <<"Additional field: ", field_name>>,
                  examples           |-> <<value>>,
                  validation_pattern |-> None]
    IN  [form |-> [f EXCEPT !.additional_fields =
                       [k \in DOMAIN old \cup {field_name} |->
                            IF k \in DOMAIN old THEN old[k] ELSE entry]],
         ret  |-> <<TRUE, None>>]

\* faulty variant: overwriting an entry also records the value as a further example
UpdateAdditional_append_example(f, field_name, value) ==
    LET old == f.additional_fields
        entry ==
            IF field_name \notin DOMAIN old
            THEN [status             |-> VALID,
                  value              |-> Some(value),
                  description        |-> <<"Additional field: ", field_name>>,
                  examples           |-> <<value>>,
                  validation_pattern |-> None]
            ELSE [old[field_name] EXCEPT !.value = Some(value), !.status = VALID,
                                         !.examples = Append(@, value)]
    IN  [form |-> [f EXCEPT !.additional_fields =
                       [k \in DOMAIN old \cup {field_name} |->
                            IF k = field_name THEN entry ELSE old[k]]],
         ret  |-> <<TRUE, None>>]

\* update_field, additional branch: create the entry or overwrite value and status
UpdateAdditional(f, field_name, value) ==
    LET old == f.additional_fields
        entry ==
            IF field_name \notin DOMAIN old
            THEN [status             |-> VALID,
                  value              |-> Some(value),
                  description        |-> <<"Additional field: ", field_name>>,
                  examples           |-> <<value>>,
                  validation_pattern |-> None]
            ELSE [old[field_name] EXCEPT !.value = Some(value), !.status = VALID]
    IN  [form |-> [f EXCEPT !.additional_fields =
                       [k \in DOMAIN old \cup {field_name} |->
                            IF k = field_name THEN entry ELSE old[k]]],
         ret  |-> <<TRUE, None>>]

\* faulty variant: the name is compared without regard to case
update_field_ignore_case(f, field_name, value) ==
    IF IsRequired(Lower(field_name))
    THEN UpdateRequired(f, Lower(field_name), value)
    ELSE UpdateAdditional(f, field_name, value)

\* PropertyFormModel.update_field: the updated object and the returned tuple
update_field(f, field_name, value) ==
    IF IsRequired(field_name)
    THEN UpdateRequired(f, field_name, value)
    ELSE UpdateAdditional(f, field_name, value)

----------------------------------------------------------------------------
(* PropertyFormModel.get_fields_summary                                     *)

\* The emoji that start a line are single characters, written here as
\* "[ok]", "[bad]", "[open]" and "[pin]"; the backquote is "[tick]".
RequiredHeader ==
    <<"#","#","#"," ","R","e","q","u","i","r","e","d"," ","F","i","e","l",
      "d","s">>

AdditionalHeader ==
    <<"\n","#","#","#"," ","A","d","d","i","t","i","o","n","a","l"," ","F",
      "i","e","l","d","s">>

StatusHeader ==
    <<"\n","#","#","#"," ","F","o","r","m"," ","S","t","a","t","u","s">>

Bold ==
    <<" ","*","*">>

BoldColon ==
    <<"*","*",":"," ">>

InvalidMark ==
    <<" ","(","I","n","v","a","l","i","d",")">>

NotProvidedText ==
    <<"N","o","t"," ","p","r","o","v","i","d","e","d">>

AllCompleteText ==
    <<" ","A","l","l"," ","r","e","q","u","i","r","e","d"," ","f","i","e",
      "l","d","s"," ","a","r","e"," ","c","o","m","p","l","e","t","e","!">>

WaitingForText ==
    <<" ","W","a","i","t","i","n","g"," ","f","o","r",":"," ">>

CommaSpace ==
    <<","," ">>

\* the keys of fields_map in get_fields_summary, in insertion order
DisplayNames ==
    <<
       <<"B","u","d","g","e","t">>,
       <<"T","o","t","a","l"," ","S","i","z","e">>,
       <<"R","e","a","l"," ","E","s","t","a","t","e"," ","T","y","p","e">>,
       <<"C","i","t","y">> >>

\* str.upper(), one character
UpperChar(c) ==
    IF \E i \in 1..Len(LowerCase) : LowerCase[i] = c
    THEN UpperCase[CHOOSE i \in 1..Len(LowerCase) : LowerCase[i] = c]
    ELSE c

IsLetter(c) ==
    \/ \E i \in 1..Len(LowerCase) : LowerCase[i] = c
    \/ \E i \in 1..Len(UpperCase) : UpperCase[i] = c

\* str.title(): a letter that follows a letter is lowered, any other letter
\* is raised
Title(s) ==
    [i \in 1..Len(s) |->
        IF i > 1 /\ IsLetter(s[i - 1]) THEN LowerChar(s[i]) ELSE UpperChar(s[i])]

\* sep.join(parts)
RECURSIVE Join(_, _)
Join(parts, sep) ==
    IF parts = <<>> THEN <<>>
    ELSE IF Len(parts) = 1 THEN parts[1]
    ELSE parts[1] \o sep \o Join(Tail(parts), sep)

\* one summary line per required field
RequiredLine(f, i) ==
    LET field == GetAttr(f, RequiredNames[i]) IN
    IF field.status = VALID
    THEN <<"[ok]">> \o Bold \o DisplayNames[i] \o BoldColon \o Get(field.value)
    ELSE IF field.status = INVALID
    THEN <<"[bad]">> \o Bold \o DisplayNames[i] \o BoldColon \o Get(field.value)
             \o InvalidMark
    ELSE <<"[open]">> \o Bold \o DisplayNames[i] \o BoldColon \o NotProvidedText

\* one summary line per additional field
AdditionalLine(f, name) ==
    <<"[pin]">> \o Bold \o Title(Replace(name, "_", " ")) \o BoldColon
        \o Get(f.additional_fields[name].value)

\* the additional lines; the dictionary is walked in insertion order, which
\* the model does not record: the lines are produced in one fixed order
RECURSIVE AdditionalLines(_, _)
AdditionalLines(f, names) ==
    IF names = {} THEN <<>>
    ELSE LET name == CHOOSE n \in names : TRUE
         IN  <<AdditionalLine(f, name)>> \o AdditionalLines(f, names \ {name})

Backticked(name) == <<"[tick]">> \o name \o <<"[tick]">>

\* faulty variant: the banner is chosen by whether every field was provided
StatusLine_all_provided(f) ==
    IF \A i \in 1..Len(RequiredNames) : GetAttr(f, RequiredNames[i]).status # NOT_PROVIDED
    THEN <<"[ok]">> \o AllCompleteText
    ELSE LET missing == get_missing_fields(f)
         IN  <<"[open]">> \o WaitingForText
                 \o Join([k \in 1..Len(missing) |-> Backticked(missing[k])], CommaSpace)

\* the last line of the summary
StatusLine(f) ==
    IF f.form_complete
    THEN <<"[ok]">> \o AllCompleteText
    ELSE LET missing == get_missing_fields(f)
         IN  <<"[open]">> \o WaitingForText
                 \o Join([k \in 1..Len(missing) |-> Backticked(missing[k])], CommaSpace)

\* the lines appended to summary, in order
SummaryLines(f) ==
    <<RequiredHeader>>
        \o [i \in 1..Len(RequiredNames) |-> RequiredLine(f, i)]
        \o (IF DOMAIN f.additional_fields # {}
            THEN <<AdditionalHeader>>
                     \o AdditionalLines(f, DOMAIN f.additional_fields)
            ELSE <<>>)
        \o <<StatusHeader, StatusLine(f)>>

\* PropertyFormModel.get_fields_summary
get_fields_summary(f) == Join(SummaryLines(f), <<"\n">>)

----------------------------------------------------------------------------
(* Bounds and inputs                                                        *)

\* additional_fields is open-ended: at most this many entries are created
MaxAdditional == 1

Values == {EmptyStr, Office, USD20000}

\* names passed to update_field: the required ones, a free-form one and a
\* case variant of a required one
Names == {budget, total_size, real_estate_type, city, parking, Budget}

\* the call does not push additional_fields past the bound
WithinBound(f, name) ==
    \/ IsRequired(name)
    \/ name \in DOMAIN f.additional_fields
    \/ Cardinality(DOMAIN f.additional_fields) < MaxAdditional

NoneApplied == [i \in 1..Len(RequiredNames) |-> None]

\* the history of values applied to the required fields, after one more call
Applied(h, name, value) ==
    [i \in 1..Len(RequiredNames) |->
        IF RequiredNames[i] = name THEN Some(value) ELSE h[i]]

----------------------------------------------------------------------------
(* The form object on its own: update_field calls on a PropertyFormModel    *)

\* update_field_in_form may be entered by this many writers at a time
Writers == {1, 2}

\* each writer runs update_field_in_form at most this many times
MaxCycles == 2

\* run_streaming is invoked at most this many times
MaxInvocations == 3

\* a writer that is not inside update_field_in_form, n calls behind it
Idle(n) == [pc |-> "idle", done |-> n]

Init ==
    /\ \E patterns \in PatternConfigs : form = PropertyFormModel(patterns)
    /\ state = <<>>
    /\ call = [op |-> "new"]
    /\ ret = None
    /\ applied = NoneApplied
    /\ checks = 0
    /\ cycles = [w \in Writers |-> Idle(0)]
    /\ active_requests = <<>>
    /\ closed = {}
    /\ runs = [i \in 1..MaxInvocations |-> [pc |-> "new"]]

UpdateField(name, value) ==
    /\ WithinBound(form, name)
    /\ \E r \in {update_field(form, name, value)} :
         /\ form' = r.form
         /\ ret' = r.ret
    /\ call' = [op |-> "update_field", name |-> name, value |-> value]
    /\ applied' = Applied(applied, name, value)
    /\ UNCHANGED state

Next ==
    /\ \E name \in Names, value \in Values : UpdateField(name, value)
    /\ UNCHANGED <<toolVars, streamVars>>

Spec == Init /\ [][Next]_vars

----------------------------------------------------------------------------
(* The session-state adapter (state_management.py)                          *)

\* model_dump of one PropertyField: the status is dumped as its value
DumpField(field) ==
    [status             |-> StatusValue(field.status),
     value              |-> field.value,
     description        |-> field.description,
     examples           |-> field.examples,
     validation_pattern |-> field.validation_pattern]

\* model_validate of one field dictionary
ValidateField(d) ==
    [status             |-> StatusMember(d.status),
     value              |-> d.value,
     description        |-> d.description,
     examples           |-> d.examples,
     validation_pattern |-> d.validation_pattern]

\* PropertyFormModel.model_dump
model_dump(f) ==
    [budget            |-> DumpField(f.budget),
     total_size        |-> DumpField(f.total_size),
     real_estate_type  |-> DumpField(f.real_estate_type),
     city              |-> DumpField(f.city),
     additional_fields |-> [k \in DOMAIN f.additional_fields |->
                               DumpField(f.additional_fields[k])],
     form_complete     |-> f.form_complete]

\* faulty variant: additional_fields is not read back and takes its default
model_validate_no_additional(d) ==
    [budget            |-> ValidateField(d.budget),
     total_size        |-> ValidateField(d.total_size),
     real_estate_type  |-> ValidateField(d.real_estate_type),
     city              |-> ValidateField(d.city),
     additional_fields |-> <<>>,
     form_complete     |-> d.form_complete]

\* PropertyFormModel.model_validate
model_validate(d) ==
    [budget            |-> ValidateField(d.budget),
     total_size        |-> ValidateField(d.total_size),
     real_estate_type  |-> ValidateField(d.real_estate_type),
     city              |-> ValidateField(d.city),
     additional_fields |-> [k \in DOMAIN d.additional_fields |->
                               ValidateField(d.additional_fields[k])],
     form_complete     |-> d.form_complete]

\* state[key] = value
Put(s, key, value) ==
    [k \in DOMAIN s \cup {key} |-> IF k = key THEN value ELSE s[k]]

\* faulty variant: the empty form is written whether or not an entry exists
initialize_form_in_state_always(s) ==
    Put(s, "property_form", model_dump(PropertyFormModel(ShippedPatterns)))

\* initialize_form_in_state: the state after the call
initialize_form_in_state(s) ==
    IF "property_form" \notin DOMAIN s
    THEN Put(s, "property_form", model_dump(PropertyFormModel(ShippedPatterns)))
    ELSE s

\* faulty variant: the stored additional fields are not read back
get_form_from_state_required_only(s) ==
    LET s1 == initialize_form_in_state(s)
        f  == model_validate(s1["property_form"])
    IN  [state |-> s1, form |-> [f EXCEPT !.additional_fields = <<>>]]

\* get_form_from_state: the state after the call and the returned form
get_form_from_state(s) ==
    LET s1 == initialize_form_in_state(s)
    IN  [state |-> s1, form |-> model_validate(s1["property_form"])]

\* faulty variant: a required field the form leaves unset keeps its stored
\* entry
update_form_in_state_merge(s, f) ==
    LET new == model_dump(f)
        old == IF "property_form" \in DOMAIN s THEN s["property_form"] ELSE new
        Pick(a, b) == IF b.status = "not_provided" THEN a ELSE b
    IN  Put(s, "property_form",
            [new EXCEPT !.budget           = Pick(old.budget, new.budget),
                        !.total_size       = Pick(old.total_size, new.total_size),
                        !.real_estate_type = Pick(old.real_estate_type, new.real_estate_type),
                        !.city             = Pick(old.city, new.city)])

\* update_form_in_state: the state after the call
update_form_in_state(s, f) == Put(s, "property_form", model_dump(f))

\* faulty variant: the form is saved only when the update succeeded
update_field_in_form_save_on_success(s, field_name, value) ==
    LET got == get_form_from_state(s)
        upd == update_field(got.form, field_name, value)
    IN  [state |-> IF upd.ret[1] THEN update_form_in_state(got.state, upd.form)
                   ELSE got.state,
         form  |-> upd.form,
         ret   |-> upd.ret]

\* update_field_in_form: the state after the call, the form object it
\* worked on and the returned tuple
update_field_in_form(s, field_name, value) ==
    LET got == get_form_from_state(s)
        upd == update_field(got.form, field_name, value)
    IN  [state |-> update_form_in_state(got.state, upd.form),
         form  |-> upd.form,
         ret   |-> upd.ret]

----------------------------------------------------------------------------
(* extract_field (tools.py)                                                 *)

\* faulty variant: spaces are kept
Normalize_lower_only(field_name) == Lower(field_name)

Normalize(field_name) == Replace(Lower(field_name), " ", "_")

\* the value extract_field compares the incoming value with
CurrentValue(f, normalized_field_name) ==
    IF IsRequired(normalized_field_name)
    THEN GetAttr(f, normalized_field_name).value
    ELSE IF normalized_field_name \in DOMAIN f.additional_fields
         THEN f.additional_fields[normalized_field_name].value
         ELSE None

\* faulty variant: the stored value is not compared, every call updates
extract_field_always_update(s, field_name, value) ==
    LET normalized_field_name == Normalize(field_name)
        is_standard_field     == IsRequired(normalized_field_name)
        upd == update_field_in_form(s, normalized_field_name, value)
    IN  IF ~upd.ret[1]
        THEN [state |-> upd.state,
              form  |-> upd.form,
              ret   |-> [status |-> "error",
                         field  |-> normalized_field_name,
                         value  |-> value,
                         error  |-> IF Truthy(upd.ret[2]) THEN Get(upd.ret[2])
                                    ELSE "Validation failed"]]
        ELSE [state |-> upd.state,
              form  |-> upd.form,
              ret   |-> [status            |-> "success",
                         field             |-> normalized_field_name,
                         value             |-> value,
                         is_standard_field |-> is_standard_field]]

\* faulty variant: the outcome of the update is not looked at
extract_field_always_success(s, field_name, value) ==
    LET normalized_field_name == Normalize(field_name)
        is_standard_field     == IsRequired(normalized_field_name)
        got                   == get_form_from_state(s)
        current_value         == CurrentValue(got.form, normalized_field_name)
        upd == update_field_in_form(got.state, normalized_field_name, value)
    IN  IF current_value = Some(value)
        THEN [state |-> got.state,
              form  |-> got.form,
              ret   |-> [status  |-> "unchanged",
                         field   |-> normalized_field_name,
                         value   |-> value,
                         message |-> "Field already has this value"]]
        ELSE [state |-> upd.state,
              form  |-> upd.form,
              ret   |-> [status            |-> "success",
                         field             |-> normalized_field_name,
                         value             |-> value,
                         is_standard_field |-> is_standard_field]]

\* extract_field: the state after the call, the form object last obtained
\* and the returned dictionary
extract_field(s, field_name, value) ==
    LET normalized_field_name == Normalize(field_name)
        is_standard_field     == IsRequired(normalized_field_name)
        got                   == get_form_from_state(s)
        current_value         == CurrentValue(got.form, normalized_field_name)
        upd == update_field_in_form(got.state, normalized_field_name, value)
    IN  IF current_value = Some(value)
        THEN [state |-> got.state,
              form  |-> got.form,
              ret   |-> [status  |-> "unchanged",
                         field   |-> normalized_field_name,
                         value   |-> value,
                         message |-> "Field already has this value"]]
        ELSE IF ~upd.ret[1]
        THEN [state |-> upd.state,
              form  |-> upd.form,
              ret   |-> [status |-> "error",
                         field  |-> normalized_field_name,
                         value  |-> value,
                         error  |-> IF Truthy(upd.ret[2]) THEN Get(upd.ret[2])
                                    ELSE "Validation failed"]]
        ELSE [state |-> upd.state,
              form  |-> upd.form,
              ret   |-> [status            |-> "success",
                         field             |-> normalized_field_name,
                         value             |-> value,
                         is_standard_field |-> is_standard_field]]

----------------------------------------------------------------------------
(* A session: the adapter and the tool acting on the session state          *)

\* names passed to update_field_in_form
StoredNames == {budget, total_size, real_estate_type, city, parking}

\* values the agent extracts from the conversation
StoredValues == {Office, USD20000}

\* field names as the agent passes them to extract_field
RawNames == {budget, Total_Size, real_estate_type, city, Pet_Friendly}

InitializeFormInState ==
    /\ state' = initialize_form_in_state(state)
    /\ call' = [op |-> "initialize_form_in_state"]
    /\ ret' = None
    /\ UNCHANGED <<form, applied>>

GetFormFromState ==
    /\ \E got \in {get_form_from_state(state)} :
         /\ state' = got.state
         /\ form' = got.form
    /\ call' = [op |-> "get_form_from_state"]
    /\ ret' = None
    /\ UNCHANGED applied

UpdateFormInState ==
    /\ state' = update_form_in_state(state, form)
    /\ call' = [op |-> "update_form_in_state"]
    /\ ret' = None
    /\ UNCHANGED <<form, applied>>

UpdateFieldInForm(name, value) ==
    /\ WithinBound(get_form_from_state(state).form, name)
    /\ \E r \in {update_field_in_form(state, name, value)} :
         /\ state' = r.state
         /\ form' = r.form
         /\ ret' = r.ret
    /\ call' = [op |-> "update_field_in_form", name |-> name, value |-> value]
    /\ applied' = Applied(applied, name, value)

ExtractField(field_name, value) ==
    /\ WithinBound(get_form_from_state(state).form, Normalize(field_name))
    /\ \E r \in {extract_field(state, field_name, value)} :
         /\ state' = r.state
         /\ form' = r.form
         /\ ret' = r.ret
         /\ applied' = IF r.ret.status = "unchanged" THEN applied
                       ELSE Applied(applied, Normalize(field_name), value)
    /\ call' = [op |-> "extract_field", name |-> field_name, value |-> value]

SessionStep ==
    \/ InitializeFormInState
    \/ GetFormFromState
    \/ UpdateFormInState
    \/ \E name \in StoredNames, value \in StoredValues : UpdateFieldInForm(name, value)
    \/ \E field_name \in RawNames, value \in StoredValues : ExtractField(field_name, value)

NextState == SessionStep /\ UNCHANGED <<toolVars, streamVars>>

SpecState == Init /\ [][NextState]_vars

\* a session driven through the tool alone
ExtractStep ==
    \/ UpdateFormInState
    \/ \E name \in RawNames, value \in StoredValues : ExtractField(name, value)

NextExtract == ExtractStep /\ UNCHANGED <<toolVars, streamVars>>

SpecExtract == Init /\ [][NextExtract]_vars

\* a session in the shipped configuration: the stored form is only ever
\* the one initialize_form_in_state creates, updated through the adapter
\* and the tool
ShippedValues == {EmptyStr, Office, USD20000}

ShippedNames == {budget, city}

ShippedStep ==
    \/ \E name \in ShippedNames, value \in ShippedValues : UpdateFieldInForm(name, value)
    \/ \E field_name \in RawNames, value \in ShippedValues : ExtractField(field_name, value)

NextShipped == ShippedStep /\ UNCHANGED <<toolVars, streamVars>>

SpecShipped == Init /\ [][NextShipped]_vars

\* U+2102 DOUBLE-STRUCK CAPITAL C, written as one character: an uppercase
\* letter (str.isupper() is true) that str.lower() leaves as it is
DoubleStruckC == "[U+2102]"

\* the field name "\u2102 Zone"
C_Zone == <<DoubleStruckC, " ", "Z", "o", "n", "e">>

\* field names in the spellings an agent may pass to extract_field
SpelledNames == {Budget, Total_Size, Pet_Friendly, pet_friendly, C_Zone}

\* a session in which extract_field is called with differently spelled names
NamesStep ==
    \E field_name \in SpelledNames, value \in StoredValues : ExtractField(field_name, value)

NextNames == NamesStep /\ UNCHANGED <<toolVars, streamVars>>

SpecNames == Init /\ [][NextNames]_vars

----------------------------------------------------------------------------
(* Summaries of a session's form                                            *)

\* a value that reads like the banner
WaitingForApproval ==
    <<"W","a","i","t","i","n","g"," ","f","o","r"," ",
      "a","p","p","r","o","v","a","l">>

SummaryValues == {Office, WaitingForApproval}

SummaryNames == {budget, total_size, real_estate_type, city, parking}

SummaryStep ==
    \/ GetFormFromState
    \/ UpdateFormInState
    \/ \E name \in SummaryNames, value \in SummaryValues : UpdateFieldInForm(name, value)

NextSummary == SummaryStep /\ UNCHANGED <<toolVars, streamVars>>

SpecSummary == Init /\ [][NextSummary]_vars

----------------------------------------------------------------------------
(* The validator agent: before_validator_cb and check_form_status           *)

\* state_management.is_form_complete
is_form_complete(s) == is_complete(get_form_from_state(s).form)

\* state_management.get_missing_fields
missing_fields_in_state(s) == get_missing_fields(get_form_from_state(s).form)

\* state_management.get_form_summary
get_form_summary(s) == get_fields_summary(get_form_from_state(s).form)

\* state.get('form_validation_count', 0)
ValidationCount(s) ==
    IF "form_validation_count" \in DOMAIN s THEN s["form_validation_count"] ELSE 0

\* check_form_status: the state after the call and the returned dictionary
check_form_status(s) ==
    [state |-> initialize_form_in_state(s),
     ret   |-> [form_complete    |-> is_form_complete(s),
                missing_fields   |-> missing_fields_in_state(s),
                summary          |-> get_form_summary(s),
                validation_count |-> ValidationCount(s)]]

\* before_validator_cb: the state after the call
before_validator_cb(s) ==
    IF "form_validation_count" \notin DOMAIN s
    THEN Put(s, "form_validation_count", 0)
    ELSE Put(s, "form_validation_count", s["form_validation_count"] + 1)

\* the validator agent runs at most this many times
MaxValidatorRuns == 3

\* check_form_status is invoked at most this many times
MaxChecks == 3

ValidatorNames == {budget, city}

BeforeValidatorCb ==
    /\ ValidationCount(state) < MaxValidatorRuns - 1
    /\ state' = before_validator_cb(state)
    /\ call' = [op |-> "before_validator_cb"]
    /\ ret' = None
    /\ UNCHANGED <<form, applied, toolVars, streamVars>>

\* check_form_status is a tool of the validator agent only, so it is
\* invoked after before_validator_cb has run
CheckFormStatus ==
    /\ "form_validation_count" \in DOMAIN state
    /\ checks < MaxChecks
    /\ \E r \in {check_form_status(state)} :
         /\ state' = r.state
         /\ ret' = r.ret
    /\ form' = get_form_from_state(state).form
    /\ call' = [op |-> "check_form_status"]
    /\ checks' = checks + 1
    /\ UNCHANGED <<applied, cycles, streamVars>>

NextValidator ==
    \/ BeforeValidatorCb
    \/ CheckFormStatus
    \/ /\ \E name \in ValidatorNames, value \in StoredValues :
             UpdateFieldInForm(name, value)
       /\ UNCHANGED <<toolVars, streamVars>>

SpecValidator == Init /\ [][NextValidator]_vars

----------------------------------------------------------------------------
(* update_field_in_form entered by several writers: its three statements    *)
(* (load, update_field, save) are separate steps                            *)

CycleNames == {budget, parking}

\* form = get_form_from_state(state); `loaded` keeps the form as it was
\* returned and `overlapped` records a save by another writer since then
CycleLoad(w, field_name, value) ==
    /\ cycles[w].pc = "idle"
    /\ cycles[w].done < MaxCycles
    /\ \E got \in {get_form_from_state(state)} :
         /\ WithinBound(got.form, field_name)
         /\ state' = got.state
         /\ cycles' = [cycles EXCEPT ![w] =
                          [pc         |-> "loaded",
                           done       |-> cycles[w].done,
                           name       |-> field_name,
                           value      |-> value,
                           form       |-> got.form,
                           loaded     |-> got.form,
                           overlapped |-> FALSE]]
    /\ UNCHANGED <<form, call, ret, applied, checks, streamVars>>

\* result = form.update_field(field_name, value)
CycleUpdate(w) ==
    /\ cycles[w].pc = "loaded"
    /\ \E upd \in {update_field(cycles[w].form, cycles[w].name, cycles[w].value)} :
         cycles' = [cycles EXCEPT ![w] =
                       [pc         |-> "updated",
                        done       |-> cycles[w].done,
                        name       |-> cycles[w].name,
                        value      |-> cycles[w].value,
                        form       |-> upd.form,
                        result     |-> upd.ret,
                        loaded     |-> cycles[w].loaded,
                        overlapped |-> cycles[w].overlapped]]
    /\ UNCHANGED <<form, state, call, ret, applied, checks, streamVars>>

\* update_form_in_state(state, form); return result
CycleSave(w) ==
    /\ cycles[w].pc = "updated"
    /\ state' = update_form_in_state(state, cycles[w].form)
    /\ cycles' = [v \in Writers |->
                     IF v = w THEN Idle(cycles[w].done + 1)
                     ELSE IF cycles[v].pc = "idle" THEN cycles[v]
                     ELSE [cycles[v] EXCEPT !.overlapped = TRUE]]
    /\ form' = cycles[w].form
    /\ call' = [op |-> "update_field_in_form", name |-> cycles[w].name,
                value |-> cycles[w].value]
    /\ ret' = cycles[w].result
    /\ applied' = Applied(applied, cycles[w].name, cycles[w].value)
    /\ UNCHANGED <<checks, streamVars>>

NextCycles ==
    \E w \in Writers :
        \/ \E name \in CycleNames, value \in StoredValues : CycleLoad(w, name, value)
        \/ CycleUpdate(w)
        \/ CycleSave(w)

SpecCycles == Init /\ [][NextCycles]_vars

----------------------------------------------------------------------------
(* Spot2Assistant.run_streaming: invocations on one session id. The queue   *)
(* that invocation i creates is named i; `closed` holds the queues on which *)
(* close() has been called                                                  *)

SessionId == "session_1"

\* _setup_live_request: active_requests after registering queue q
setup_live_request(ar, session_id, q) ==
    Put(ar, session_id, [request_queue |-> q])

\* _cancel_previous_requests: active_requests and closed after the call
cancel_previous_requests(ar, cl, session_id) ==
    IF session_id \in DOMAIN ar
    THEN [active_requests |-> Put(ar, session_id, <<>>),
          closed          |-> IF "request_queue" \in DOMAIN ar[session_id]
                              THEN cl \cup {ar[session_id].request_queue}
                              ELSE cl]
    ELSE [active_requests |-> ar, closed |-> cl]

\* faulty variant: the queue passed in is unregistered but not closed
cleanup_resources_unregister_only(ar, cl, session_id, live_request_queue) ==
    IF session_id \in DOMAIN ar
    THEN [active_requests |-> Put(ar, session_id, <<>>), closed |-> cl]
    ELSE [active_requests |-> ar, closed |-> cl]

\* _cleanup_resources: active_requests and closed after the call
cleanup_resources(ar, cl, session_id, live_request_queue) ==
    IF session_id \in DOMAIN ar
    THEN [active_requests |-> Put(ar, session_id, <<>>),
          closed          |-> cl \cup {live_request_queue}]
    ELSE [active_requests |-> ar, closed |-> cl]

\* run_streaming up to its try block: no await in it suspends
StartStreaming(i) ==
    /\ runs[i].pc = "new"
    /\ \E c \in {cancel_previous_requests(active_requests, closed, SessionId)} :
         /\ active_requests' = setup_live_request(c.active_requests, SessionId, i)
         /\ closed' = c.closed
    /\ state' = initialize_form_in_state(state)
    /\ runs' = [runs EXCEPT ![i] = [pc |-> "streaming"]]
    /\ UNCHANGED <<form, call, ret, applied, toolVars>>

\* a ValueError, RuntimeError or AttributeError reaches the except clause,
\* which yields the error chunk
CatchError(i) ==
    /\ runs[i].pc = "streaming"
    /\ runs' = [runs EXCEPT ![i] = [pc |-> "handling"]]
    /\ UNCHANGED <<formVars, toolVars, active_requests, closed>>

\* the finally clause, entered when the events are exhausted, after the
\* except clause, or with any other exception
Finally(i, path) ==
    /\ \/ runs[i].pc = "streaming" /\ path \in {"exhausted", "other"}
       \/ runs[i].pc = "handling" /\ path = "caught"
    /\ \E c \in {cleanup_resources(active_requests, closed, SessionId, i)} :
         /\ active_requests' = c.active_requests
         /\ closed' = c.closed
    /\ runs' = [runs EXCEPT ![i] = [pc |-> "done", path |-> path]]
    /\ UNCHANGED <<formVars, toolVars>>

ExitPaths == {"exhausted", "caught", "other"}

NextStream ==
    \E i \in 1..MaxInvocations :
        \/ StartStreaming(i)
        \/ CatchError(i)
        \/ \E path \in ExitPaths : Finally(i, path)

SpecStream == Init /\ [][NextStream]_vars

----------------------------------------------------------------------------
(* Properties of the form object (Spec)                                     *)

RequiredIndex == 1..Len(RequiredNames)

StatusOf(f, i) == GetAttr(f, RequiredNames[i]).status

\* C1: form_complete is true exactly when all four required fields are VALID.
C1_FormCompleteIffAllValid ==
    form.form_complete <=> \A i \in RequiredIndex : StatusOf(form, i) = VALID

\* C1 witness: a complete form that also went through an additional-field update
C1_Witness ==
    /\ form.form_complete
    /\ DOMAIN form.additional_fields # {}

\* C2: is_complete() is true exactly when every required field has been
\* updated at least once and the value last applied to it passes its
\* validate_value.
C2_CompleteIffLastAppliedValid ==
    is_complete(form) <=>
        \A i \in RequiredIndex :
            /\ applied[i] # None
            /\ validate_value(GetAttr(form, RequiredNames[i]), Get(applied[i]))[1]

\* C2 witness: all four fields were updated, and the last value of one failed
C2_Witness ==
    /\ \A i \in RequiredIndex : applied[i] # None
    /\ ~is_complete(form)

\* C4 (as claimed): with a city pattern that requires non-empty input,
\* update_field("city", "") returns (false, message), marks city INVALID
\* and stores the empty string.
C4_EmptyCityRejected ==
    (/\ call.op = "update_field"
     /\ call.name = city
     /\ call.value = EmptyStr
     /\ form.city.validation_pattern = Some(".+"))
    => /\ ret[1] = FALSE
       /\ ret[2] # None
       /\ form.city.status = INVALID
       /\ form.city.value = Some(EmptyStr)

\* C5: update_field on a name that is not required returns (true, None) and
\* leaves additional_fields[name] with the given value and status VALID.
C5_AdditionalAlwaysAccepted ==
    (call.op = "update_field" /\ ~IsRequired(call.name))
    => /\ ret = <<TRUE, None>>
       /\ call.name \in DOMAIN form.additional_fields
       /\ form.additional_fields[call.name].value = Some(call.value)
       /\ form.additional_fields[call.name].status = VALID

\* C5 witness: an existing entry was overwritten with the empty string
C5_Witness ==
    /\ call.op = "update_field"
    /\ ~IsRequired(call.name)
    /\ call.value = EmptyStr
    /\ form.additional_fields[call.name].examples # <<EmptyStr>>

PositionOf(name) == CHOOSE i \in RequiredIndex : RequiredNames[i] = name

\* C6: get_missing_fields() lists exactly the required fields that are not
\* VALID, each once, in the order budget, total_size, real_estate_type, city;
\* after update_field("budget", "20000 USD") on an otherwise empty form it is
\* [total_size, real_estate_type, city] and is_complete() is false.
C6_MissingFieldsExact ==
    LET missing == get_missing_fields(form) IN
    /\ \A k \in 1..Len(missing) :
          /\ IsRequired(missing[k])
          /\ GetAttr(form, missing[k]).status # VALID
    /\ \A i \in RequiredIndex :
          StatusOf(form, i) # VALID => \E k \in 1..Len(missing) : missing[k] = RequiredNames[i]
    /\ \A j, k \in 1..Len(missing) :
          j < k => PositionOf(missing[j]) < PositionOf(missing[k])
    /\ (/\ call.op = "update_field"
        /\ call.name = budget
        /\ call.value = USD20000
        /\ \A i \in RequiredIndex \ {1} : applied[i] = None
        /\ DOMAIN form.additional_fields = {})
       => /\ missing = <<total_size, real_estate_type, city>>
          /\ ~is_complete(form)

\* C6 witness: the budget scenario on an empty form
C6_Witness ==
    /\ call.op = "update_field"
    /\ call.name = budget
    /\ call.value = USD20000
    /\ \A i \in RequiredIndex \ {1} : applied[i] = None
    /\ DOMAIN form.additional_fields = {}

\* C7: a second update_field with the same name and value right after the
\* first leaves the whole form as it was and returns the same result.
C7_UpdateFieldIdempotent ==
    [][(call.op = "update_field" /\ call' = call) => (form' = form /\ ret' = ret)]_vars

\* C7 witness: an additional entry created with one value was overwritten
\* with another, so that repeating the call takes the overwrite branch
C7_Witness ==
    /\ call.op = "update_field"
    /\ ~IsRequired(call.name)
    /\ form.additional_fields[call.name].examples # <<call.value>>

\* C11: update_field treats a name as required only when it equals one of
\* the four names exactly; any other name, such as "Budget", is accepted,
\* creates or overwrites additional_fields[name] and leaves the four
\* required fields and form_complete as they were.
C11_ExactNameRouting ==
    [][call'.op = "update_field"
       => IF IsRequired(call'.name)
          THEN /\ call'.name \in {budget, total_size, real_estate_type, city}
               /\ GetAttr(form', call'.name).value = Some(call'.value)
               /\ form'.additional_fields = form.additional_fields
          ELSE /\ ret' = <<TRUE, None>>
               /\ call'.name \in DOMAIN form'.additional_fields
               /\ form'.additional_fields[call'.name].value = Some(call'.value)
               /\ \A i \in RequiredIndex :
                     GetAttr(form', RequiredNames[i]) = GetAttr(form, RequiredNames[i])
               /\ form'.form_complete = form.form_complete]_vars

\* C11 witness: update_field("Budget", v) was stored as an additional field
\* while budget holds another value
C11_Witness ==
    /\ call.op = "update_field"
    /\ call.name = Budget
    /\ Budget \in DOMAIN form.additional_fields
    /\ form.budget.value # None
    /\ form.budget.value # Some(call.value)

\* description, examples and validation_pattern agree
SameDefinition(a, b) ==
    /\ a.description = b.description
    /\ a.examples = b.examples
    /\ a.validation_pattern = b.validation_pattern

\* C18: update_field changes only the value and status of the field it
\* addresses (and form_complete for a required name, and the new entry for
\* a new additional name); every other field is untouched and no existing
\* field's description, examples or validation_pattern changes.
C18_UpdateFieldFrame ==
    [][call'.op = "update_field"
       => /\ \A i \in RequiredIndex :
               /\ SameDefinition(GetAttr(form', RequiredNames[i]),
                                 GetAttr(form, RequiredNames[i]))
               /\ RequiredNames[i] # call'.name
                  => GetAttr(form', RequiredNames[i]) = GetAttr(form, RequiredNames[i])
          /\ \A k \in DOMAIN form.additional_fields :
               /\ k \in DOMAIN form'.additional_fields
               /\ SameDefinition(form'.additional_fields[k], form.additional_fields[k])
               /\ k # call'.name
                  => form'.additional_fields[k] = form.additional_fields[k]
          /\ DOMAIN form'.additional_fields \subseteq
                 DOMAIN form.additional_fields \cup {call'.name}
          /\ IsRequired(call'.name)
             => DOMAIN form'.additional_fields = DOMAIN form.additional_fields
          /\ ~IsRequired(call'.name)
             => form'.form_complete = form.form_complete]_vars

\* C18 witness: an additional entry was overwritten with a value other than
\* its example, in a form that also holds an INVALID required field
C18_Witness ==
    /\ call.op = "update_field"
    /\ ~IsRequired(call.name)
    /\ form.additional_fields[call.name].examples # <<call.value>>
    /\ \E i \in RequiredIndex : StatusOf(form, i) = INVALID

\* C20: a required field is NOT_PROVIDED exactly when its value is None,
\* and a field that was updated is never NOT_PROVIDED or None again.
C20_NotProvidedIffNone ==
    /\ [](\A i \in RequiredIndex :
            StatusOf(form, i) = NOT_PROVIDED
                <=> GetAttr(form, RequiredNames[i]).value = None)
    /\ [][\A i \in RequiredIndex :
            StatusOf(form, i) # NOT_PROVIDED
                => /\ StatusOf(form', i) # NOT_PROVIDED
                   /\ GetAttr(form', RequiredNames[i]).value # None]_vars

\* C20 witness: a required field that held a value was updated with ""
C20_Witness ==
    /\ call.op = "update_field"
    /\ call.name = budget
    /\ call.value = EmptyStr
    /\ form.budget.value = Some(EmptyStr)
    /\ form.budget.status = VALID

----------------------------------------------------------------------------
(* Properties of a session (SpecState)                                      *)

\* C3: update_field_in_form on a required name stores the value, sets the
\* status to VALID or INVALID as validate_value decides, returns the
\* validation result, and persists value and status to the session state
\* also when validation fails.
C3_RequiredUpdateStoredAndPersisted ==
    (call.op = "update_field_in_form" /\ IsRequired(call.name))
    => LET held   == GetAttr(form, call.name)
           stored == GetAttr(state["property_form"], call.name)
           check  == validate_value(held, call.value)
       IN  /\ ret = check
           /\ held.value = Some(call.value)
           /\ held.status = IF check[1] THEN VALID ELSE INVALID
           /\ stored.value = Some(call.value)
           /\ stored.status = IF check[1] THEN "valid" ELSE "invalid"

\* C3 witness: a required update whose validation failed
C3_Witness ==
    /\ call.op = "update_field_in_form"
    /\ IsRequired(call.name)
    /\ ret[1] = FALSE

\* the value stored in the session state under a normalized name, if any
StoredValue(s, name) ==
    IF "property_form" \notin DOMAIN s THEN None
    ELSE LET d == s["property_form"] IN
         IF IsRequired(name) THEN GetAttr(d, name).value
         ELSE IF name \in DOMAIN d.additional_fields
              THEN d.additional_fields[name].value
              ELSE None

\* C8: extract_field on a field that already stores the incoming value
\* reports "unchanged" and leaves the session state as it was; a second
\* extract_field with the same name and value right after a first one
\* reports "unchanged".
C8_ExtractUnchanged ==
    [][/\ (/\ call'.op = "extract_field"
           /\ StoredValue(state, Normalize(call'.name)) = Some(call'.value))
          => (ret'.status = "unchanged" /\ state' = state)
       /\ (/\ call.op = "extract_field"
           /\ call'.op = "extract_field"
           /\ call'.name = call.name
           /\ call'.value = call.value)
          => ret'.status = "unchanged"]_vars

\* C8 witness: an extract_field call that found the value already stored
C8_Witness ==
    /\ call.op = "extract_field"
    /\ ret.status = "unchanged"
    /\ StoredValue(state, Normalize(call.name)) = Some(call.value)

\* values, statuses, additional names and completion flag agree
SameContent(a, b) ==
    /\ \A i \in RequiredIndex :
          /\ GetAttr(a, RequiredNames[i]).value = GetAttr(b, RequiredNames[i]).value
          /\ GetAttr(a, RequiredNames[i]).status = GetAttr(b, RequiredNames[i]).status
    /\ DOMAIN a.additional_fields = DOMAIN b.additional_fields
    /\ \A k \in DOMAIN a.additional_fields :
          /\ a.additional_fields[k].value = b.additional_fields[k].value
          /\ a.additional_fields[k].status = b.additional_fields[k].status
    /\ a.form_complete = b.form_complete

\* C9: a form saved with update_form_in_state and loaded back with
\* get_form_from_state has the same values, statuses, additional field
\* names and completion flag.
C9_SaveLoadRoundTrip ==
    [][(/\ call.op \in {"update_form_in_state", "update_field_in_form"}
        /\ call'.op = "get_form_from_state")
       => SameContent(form', form)]_vars

\* C9 witness: a form with an INVALID field and an additional field was loaded
C9_Witness ==
    /\ call.op = "get_form_from_state"
    /\ \E i \in RequiredIndex : StatusOf(form, i) = INVALID
    /\ DOMAIN form.additional_fields # {}
    /\ state["property_form"] = model_dump(form)

\* the dictionary of an empty form
IsEmptyFormDict(d) ==
    /\ \A i \in RequiredIndex :
          /\ GetAttr(d, RequiredNames[i]).status = "not_provided"
          /\ GetAttr(d, RequiredNames[i]).value = None
    /\ DOMAIN d.additional_fields = {}
    /\ d.form_complete = FALSE

\* C10: initialize_form_in_state writes an empty form only when the state
\* has no property_form entry and otherwise leaves the state untouched.
C10_InitializeOnlyWhenAbsent ==
    [][call'.op = "initialize_form_in_state"
       => IF "property_form" \in DOMAIN state
          THEN state' = state
          ELSE /\ DOMAIN state' = DOMAIN state \cup {"property_form"}
               /\ IsEmptyFormDict(state'["property_form"])]_vars

\* C10 witness: initialize_form_in_state was called on a state holding data
C10_Witness ==
    /\ call.op = "initialize_form_in_state"
    /\ StoredValue(state, budget) # None
    /\ StoredValue(state, parking) # None

----------------------------------------------------------------------------
(* Properties of interleaved update_field_in_form calls (SpecCycles)        *)

\* writer w executes its save in this step
Saves(w) == cycles[w].pc = "updated" /\ cycles'[w].pc = "idle"

\* C17: when a writer saves after another writer's save that followed its
\* own load, the stored form is exactly its loaded form with its own update
\* applied, and the other writer's update is not merged in; when no save
\* came between its load and its save, its update and the update of the
\* call completed before it are both stored.
C17_LastWriterWins ==
    [][\A w \in Writers : Saves(w) =>
          /\ cycles[w].overlapped =>
                /\ state'["property_form"]
                      = model_dump(update_field(cycles[w].loaded, cycles[w].name,
                                                cycles[w].value).form)
                /\ call.name # cycles[w].name
                      => StoredValue(state', call.name)
                           = CurrentValue(cycles[w].loaded, call.name)
          /\ (~cycles[w].overlapped /\ call.op = "update_field_in_form") =>
                /\ StoredValue(state', cycles[w].name) = Some(cycles[w].value)
                /\ call.name # cycles[w].name
                      => StoredValue(state', call.name) = Some(call.value)]_vars

\* C17 witness: a value that was applied and saved to a required field is
\* no longer the stored one, although no later call updated that field
C17_Witness ==
    /\ call.op = "update_field_in_form"
    /\ \E i \in RequiredIndex :
          /\ applied[i] # None
          /\ StoredValue(state, RequiredNames[i]) # applied[i]

\* the names of the additional fields stored in s
AdditionalNames(s) ==
    IF "property_form" \in DOMAIN s
    THEN DOMAIN s["property_form"].additional_fields
    ELSE {}

\* the stored form has its four required fields, none of them as an
\* additional entry
RequiredPresent(s) ==
    "property_form" \in DOMAIN s =>
        /\ DOMAIN s["property_form"]
             = {"budget", "total_size", "real_estate_type", "city",
                "additional_fields", "form_complete"}
        /\ \A i \in RequiredIndex : RequiredNames[i] \notin AdditionalNames(s)

\* C16 (as claimed): over any sequence of loads, updates and saves the set
\* of stored additional_fields names only grows, and the four required
\* fields are always present and never additional entries.
C16_NamesOnlyGrowAsClaimed ==
    [][/\ AdditionalNames(state) \subseteq AdditionalNames(state')
       /\ RequiredPresent(state')]_vars

\* C16 (amended): the four required fields are always present and never
\* additional entries; update_field never removes an additional name from
\* the form it works on; and the set of stored additional_fields names only
\* grows in every step except a save of a form that was loaded before
\* another writer's save.
C16_NamesOnlyGrow ==
    [][/\ RequiredPresent(state')
       /\ \A w \in Writers :
             (cycles[w].pc = "loaded" /\ cycles'[w].pc = "updated")
             => DOMAIN cycles[w].form.additional_fields
                  \subseteq DOMAIN cycles'[w].form.additional_fields
       /\ \/ \E w \in Writers : Saves(w) /\ cycles[w].overlapped
          \/ AdditionalNames(state) \subseteq AdditionalNames(state')]_vars

\* C16 witness: an additional field is still stored after a later call
\* updated and saved another field
C16_Witness ==
    /\ call.op = "update_field_in_form"
    /\ call.name # parking
    /\ parking \in AdditionalNames(state)

\* the outcome of update_field on the form stored in s
UpdateSucceeds(s, name, value) ==
    update_field(get_form_from_state(s).form, name, value).ret[1]

\* C15 (as claimed): when the incoming value differs from the stored one,
\* extract_field reports "success" if update_field succeeded and "error" if
\* it failed, and in both cases the result carries the normalized name, the
\* value and is_standard_field, true exactly for the four required names.
C15_ExtractResultAsClaimed ==
    [][(/\ call'.op = "extract_field"
        /\ StoredValue(state, Normalize(call'.name)) # Some(call'.value))
       => /\ ret'.status = IF UpdateSucceeds(state, Normalize(call'.name), call'.value)
                           THEN "success" ELSE "error"
          /\ ret'.field = Normalize(call'.name)
          /\ ret'.value = call'.value
          /\ "is_standard_field" \in DOMAIN ret'
          /\ ret'.is_standard_field = IsRequired(Normalize(call'.name))]_vars

\* C15 (amended): when the incoming value differs from the stored one,
\* extract_field reports "success" if update_field succeeded and "error" if
\* it failed, and in both cases the result carries the normalized name and
\* the value; a "success" result also carries is_standard_field, true
\* exactly for the four required names, while an "error" result carries an
\* error message and no is_standard_field.
C15_ExtractResult ==
    [][(/\ call'.op = "extract_field"
        /\ StoredValue(state, Normalize(call'.name)) # Some(call'.value))
       => /\ ret'.status = IF UpdateSucceeds(state, Normalize(call'.name), call'.value)
                           THEN "success" ELSE "error"
          /\ ret'.field = Normalize(call'.name)
          /\ ret'.value = call'.value
          /\ ret'.status = "success"
             => /\ DOMAIN ret' = {"status", "field", "value", "is_standard_field"}
                /\ ret'.is_standard_field = IsRequired(Normalize(call'.name))
          /\ ret'.status = "error"
             => DOMAIN ret' = {"status", "field", "value", "error"}]_vars

\* C15 witness: an extract_field call whose update was rejected
C15_Witness ==
    /\ call.op = "extract_field"
    /\ ret.status = "error"
    /\ ret.field = Normalize(call.name)
    /\ StoredValue(state, ret.field) = Some(call.value)

----------------------------------------------------------------------------
(* Properties of a session in the shipped configuration (SpecShipped)       *)

\* no required field of the form stored in s carries a validation_pattern
ShippedStored(s) ==
    "property_form" \in DOMAIN s =>
        \A i \in RequiredIndex :
            GetAttr(s["property_form"], RequiredNames[i]).validation_pattern = None

\* no required field of the form stored in s has status INVALID
NoneInvalid(s) ==
    "property_form" \in DOMAIN s =>
        \A i \in RequiredIndex :
            GetAttr(s["property_form"], RequiredNames[i]).status # StatusValue(INVALID)

\* is_complete() of the form stored in s
StoredComplete(s) ==
    /\ "property_form" \in DOMAIN s
    /\ is_complete(model_validate(s["property_form"]))

\* C21: while no required field carries a validation_pattern, no
\* update_field or extract_field call leaves a required field INVALID or
\* reports a failure, and a complete form stays complete over every call.
C21_ShippedStaysComplete ==
    [][ShippedStored(state) =>
          /\ ShippedStored(state')
          /\ NoneInvalid(state')
          /\ call'.op = "update_field_in_form" => ret'[1]
          /\ call'.op = "extract_field" => ret'.status # "error"
          /\ StoredComplete(state) => StoredComplete(state')]_vars

\* C21 witness: a complete form whose city was last set to the empty
\* string by an extract_field call, every other field having been set before
C21_Witness ==
    /\ call.op = "extract_field"
    /\ call.name = city
    /\ call.value = EmptyStr
    /\ ret.status = "success"
    /\ StoredComplete(state)
    /\ ShippedStored(state)

----------------------------------------------------------------------------
(* Properties of the stored field names (SpecNames)                         *)

\* str.isupper() of one character
IsUpper(c) == c = DoubleStruckC \/ \E i \in 1..Len(UpperCase) : UpperCase[i] = c

\* extract_field with a name that normalizes to a required name stores the
\* value in that required field and creates no additional field
RequiredSpellingRouted ==
    (call'.op = "extract_field" /\ IsRequired(Normalize(call'.name)))
    => /\ ret'.field = Normalize(call'.name)
       /\ StoredValue(state', Normalize(call'.name)) = Some(call'.value)
       /\ AdditionalNames(state') = AdditionalNames(state)

----------------------------------------------------------------------------
(* Properties of the summary (SpecSummary)                                  *)

Contains(s, sub) ==
    \E i \in 0..(Len(s) - Len(sub)) : SubSeq(s, i + 1, i + Len(sub)) = sub

EndsWith(s, suffix) ==
    /\ Len(suffix) <= Len(s)
    /\ SubSeq(s, Len(s) - Len(suffix) + 1, Len(s)) = suffix

\* the text after the last line break
LastLine(s) ==
    LET breaks == {i \in 1..Len(s) : s[i] = "\n"}
        start  == IF breaks = {} THEN 0
                  ELSE CHOOSE i \in breaks : \A j \in breaks : j <= i
    IN  SubSeq(s, start + 1, Len(s))

WaitingForWords == <<"W","a","i","t","i","n","g"," ","f","o","r">>

AllCompleteBanner ==
    <<"[ok]"," ","A","l","l"," ","r","e","q","u","i","r","e","d"," ",
      "f","i","e","l","d","s"," ","a","r","e"," ","c","o","m","p","l","e","t","e","!">>

\* the "Waiting for" banner that lists the given names
RECURSIVE ListedNames(_)
ListedNames(names) ==
    IF names = <<>> THEN <<>>
    ELSE <<"[tick]">> \o Head(names) \o <<"[tick]">>
         \o (IF Len(names) > 1 THEN <<",", " ">> ELSE <<>>)
         \o ListedNames(Tail(names))

WaitingBanner(names) ==
    <<"[open]"," ">> \o WaitingForWords \o <<":"," ">> \o ListedNames(names)

\* C14 (as claimed): the summary ends with the "all complete" banner and
\* contains no "Waiting for" text exactly when is_complete() is true, and
\* otherwise ends with a "Waiting for" banner listing get_missing_fields().
C14_SummaryBannerAsClaimed ==
    LET summary == get_fields_summary(form) IN
    /\ is_complete(form)
       <=> (/\ EndsWith(summary, <<"\n">> \o AllCompleteBanner)
            /\ ~Contains(summary, WaitingForWords))
    /\ ~is_complete(form)
       => EndsWith(summary, <<"\n">> \o WaitingBanner(get_missing_fields(form)))

\* C14 (amended): the last line of the summary is the "all complete" banner
\* exactly when is_complete() is true, and then that line contains no
\* "Waiting for" text; otherwise the last line is the "Waiting for" banner
\* listing get_missing_fields() in order.
C14_SummaryBanner ==
    LET banner == LastLine(get_fields_summary(form)) IN
    /\ is_complete(form) <=> banner = AllCompleteBanner
    /\ is_complete(form) => ~Contains(banner, WaitingForWords)
    /\ ~is_complete(form) => banner = WaitingBanner(get_missing_fields(form))

\* C14 witness: a complete form, loaded back from the session state, one of
\* whose values reads "Waiting for ..."
C14_Witness ==
    /\ call.op = "get_form_from_state"
    /\ is_complete(form)
    /\ \E i \in RequiredIndex :
          GetAttr(form, RequiredNames[i]).value = Some(WaitingForApproval)

----------------------------------------------------------------------------
(* Properties of the validator agent (SpecValidator)                        *)

\* C12 (as claimed): the validation_count that check_form_status returns is
\* the number of times check_form_status has been invoked so far.
C12_CountsInvocations ==
    call.op = "check_form_status" => ret.validation_count = checks

----------------------------------------------------------------------------
(* Properties of run_streaming (SpecStream)                                 *)

\* the queues registered so far on which close() has not been called
Unclosed == {i \in 1..MaxInvocations : runs[i].pc # "new" /\ i \notin closed}

\* C13 (as claimed): when an invocation registers its queue every queue
\* registered earlier for the session has been closed, so at most one
\* un-closed request queue exists at any time.
C13_AtMostOneUnclosedQueue == Cardinality(Unclosed) <= 1

\* C19: every step in which an invocation leaves run_streaming, on any of
\* its exit paths, leaves that invocation's queue closed and no request
\* queue registered for the session.
C19_CleanupOnEveryExit ==
    [][\A i \in 1..MaxInvocations :
          (runs[i].pc # "done" /\ runs'[i].pc = "done")
          => /\ runs[i].pc \in {"streaming", "handling"}
             /\ i \in closed'
             /\ SessionId \in DOMAIN active_requests'
             /\ "request_queue" \notin DOMAIN active_requests'[SessionId]]_vars

\* C19 witness: an invocation left through an exception that run_streaming
\* does not catch while a newer invocation was registered
C19_Witness ==
    \E i \in 1..MaxInvocations :
        /\ runs[i].pc = "done"
        /\ runs[i].path = "other"
        /\ i \in closed
        /\ active_requests[SessionId] = <<>>
        /\ \E j \in 1..MaxInvocations : j # i /\ runs[j].pc = "streaming"

\* invocation i is between its _setup_live_request and its own
\* _cleanup_resources
InFlight(i) == runs[i].pc \in {"streaming", "handling"}

\* C23 (as claimed): the _cleanup_resources step of an invocation never
\* clears the registration of another invocation that is still in flight;
\* the queue registered while an invocation cleans up is the one of the
\* newest invocation, so a registered queue of another in-flight invocation
\* stays registered over the step.
C23_CleanupKeepsNewerRegistration ==
    [][\A i \in 1..MaxInvocations :
          (/\ InFlight(i)
           /\ runs'[i].pc = "done"
           /\ "request_queue" \in DOMAIN active_requests[SessionId]
           /\ active_requests[SessionId].request_queue # i
           /\ InFlight(active_requests[SessionId].request_queue))
          => active_requests'[SessionId] = active_requests[SessionId]]_vars

====
